---- MODULE Spec2Model ----
(***************************************************************************)
(* String Analysis API (src/server.js): an HTTP service keeping an ordered *)
(* in-memory collection of analysed strings (stringsBank) mirrored to a    *)
(* JSON file (strings.json).  Strings are modelled as sequences of         *)
(* one-character strings, so that length, reversal, substring search,      *)
(* percent-decoding and parseInt are computed as the code computes them.   *)
(***************************************************************************)
EXTENDS Integers, Sequences, FiniteSets, TLC

VARIABLES stringsBank, file, req, resp, intact, deleted204, httpReq, query

vars == <<stringsBank, file, req, resp, intact, deleted204, httpReq, query>>

(***************************************************************************)
(* Bounds of the model.                                                    *)
(***************************************************************************)
\* number of create/delete requests of one run of the service
MaxReqs == 3
\* longest pathname, in path tokens, given to the dispatcher
MaxPathLen == 4
\* largest collection given to the list/filter handler
MaxBankLen == 2
\* longest natural-language query, in phrases
MaxPhrases == 3

(***************************************************************************)
(* Strings.                                                                *)
(***************************************************************************)
Reverse(s) == [i \in 1..Len(s) |-> s[Len(s) + 1 - i]]

\* String.prototype.includes: sub occurs in s as a contiguous substring
Includes(s, sub) ==
    \E i \in 0..(Len(s) - Len(sub)) :
        \A j \in 1..Len(sub) : s[i + j] = sub[j]

CharsOf(s) == {s[i] : i \in 1..Len(s)}

RECURSIVE Concat(_)
Concat(ss) == IF ss = <<>> THEN <<>> ELSE Head(ss) \o Concat(Tail(ss))

Digits == {"0", "1", "2", "3", "4", "5", "6", "7", "8", "9"}

DigitVal(c) ==
    CASE c = "0" -> 0 [] c = "1" -> 1 [] c = "2" -> 2 [] c = "3" -> 3
      [] c = "4" -> 4 [] c = "5" -> 5 [] c = "6" -> 6 [] c = "7" -> 7
      [] c = "8" -> 8 [] c = "9" -> 9

\* length of the longest run of digits of s that starts at index i
RECURSIVE DigitRun(_, _)
DigitRun(s, i) ==
    IF i <= Len(s) /\ s[i] \in Digits THEN 1 + DigitRun(s, i + 1) ELSE 0

\* value of the decimal digits s[i..i+n-1]
RECURSIVE DecVal(_, _, _)
DecVal(s, i, n) ==
    IF n = 0 THEN 0 ELSE DecVal(s, i, n - 1) * 10 + DigitVal(s[i + n - 1])

\* number of leading spaces of s from index i
RECURSIVE SpaceRun(_, _)
SpaceRun(s, i) ==
    IF i <= Len(s) /\ s[i] = " " THEN 1 + SpaceRun(s, i + 1) ELSE 0

\* parseInt(s): leading white space skipped, an optional sign, then the
\* longest prefix of decimal digits; NaN when there is no digit.
parseInt(s) ==
    LET a == 1 + SpaceRun(s, 1)
        signed == a <= Len(s) /\ s[a] \in {"-", "+"}
        b == IF signed THEN a + 1 ELSE a
        n == DigitRun(s, b)
        v == DecVal(s, b, n)
    IN  IF n = 0 THEN [nan |-> TRUE, n |-> 0]
        ELSE [nan |-> FALSE, n |-> IF signed /\ s[a] = "-" THEN 0 - v ELSE v]

(***************************************************************************)
(* Analyzer: the properties finalHandler computes for a value.             *)
(***************************************************************************)
\* external collaborator ./hashing-engine.js: a deterministic digest
hashString(value) == <<"sha256">> \o value

is_palindrome(value) == Len(value) > 0 /\ Reverse(value) = value

uniqueCharactersCount(value) == Cardinality(CharsOf(value))

\* value.trim() === "" ? 0 : value.trim().split(/\s+/).length
wordCount(value) ==
    Cardinality({i \in 1..Len(value) :
        value[i] # " " /\ (i = 1 \/ value[i - 1] = " ")})

\* occurrences of each character of value.replaceAll(" ", "")
characterMap(value) ==
    [c \in CharsOf(value) \ {" "} |->
        Cardinality({i \in 1..Len(value) : value[i] = c})]

responseObject(value, now) ==
    [id |-> hashString(value),
     value |-> value,
     properties |->
        [length |-> Len(value),
         is_palindrome |-> is_palindrome(value),
         unique_characters |-> uniqueCharactersCount(value),
         word_count |-> wordCount(value),
         sha256_hash |-> hashString(value),
         character_frequency_map |-> characterMap(value)],
     created_at |-> now]

\* JSON.stringify(stringsBank, null, 2): the text written to strings.json,
\* one entry per record, fields in the order of the object literal
JSONstringify(bank) ==
    [i \in 1..Len(bank) |->
        <<bank[i].id, bank[i].value, bank[i].properties.length,
          bank[i].properties.is_palindrome,
          bank[i].properties.unique_characters,
          bank[i].properties.word_count,
          bank[i].properties.sha256_hash,
          bank[i].properties.character_frequency_map,
          bank[i].created_at>>]

(***************************************************************************)
(* Percent-decoding of the path parameter.  A path parameter is a sequence *)
(* of path tokens: a plain character, an escape "%20" or "%61", or a lone  *)
(* "%" that is followed by no two hex digits.                              *)
(***************************************************************************)
decodeURIComponent(stringValue) ==
    IF \E i \in 1..Len(stringValue) : stringValue[i] = "%"
    THEN [thrown |-> TRUE, str |-> <<>>]
    ELSE [thrown |-> FALSE,
          str |-> [i \in 1..Len(stringValue) |->
                      CASE stringValue[i] = "%20" -> " "
                        [] stringValue[i] = "%61" -> "a"
                        [] OTHER -> stringValue[i]]]

(***************************************************************************)
(* Responses.  failed marks a request one of whose steps threw; code = 0   *)
(* is a request for which res.end was never called.                        *)
(***************************************************************************)
NoFilters == [k \in {} |-> TRUE]

Response(handler, code, message, data, filters) ==
    [handler |-> handler, code |-> code, message |-> message,
     data |-> data, count |-> Len(data), filters |-> filters,
     failed |-> code = 500]

Escaped(handler) ==
    [handler |-> handler, code |-> 0, message |-> "", data |-> <<>>,
     count |-> 0, filters |-> NoFilters, failed |-> TRUE]

NoResponse == Response("none", 0, "", <<>>, NoFilters)

\* Exists comparing the record's digest, not its value, with the new value
ExistsById(bank, value) == \E i \in 1..Len(bank) : bank[i].id = value

\* stringsBank.some((el) => el?.value === value)
Exists(bank, value) == \E i \in 1..Len(bank) : bank[i].value = value

\* stringsBank.findIndex((el) => el.value === decodedValue), 0 for -1
findIndex(bank, value) ==
    IF \E i \in 1..Len(bank) : bank[i].value = value
    THEN CHOOSE i \in 1..Len(bank) :
            /\ bank[i].value = value
            /\ \A j \in 1..(i - 1) : bank[j].value # value
    ELSE 0

\* stringsBank.splice(index, 1)
splice(bank, index) ==
    [i \in 1..(Len(bank) - 1) |-> IF i < index THEN bank[i] ELSE bank[i + 1]]

\* push on a copy (concat), which leaves stringsBank as it was
pushToCopy(bank, rec) == bank

\* stringsBank.push(responseObject)
push(bank, rec) == Append(bank, rec)

(***************************************************************************)
(* getStringHandler: no try/catch around decodeURIComponent.               *)
(***************************************************************************)
getStringHandler(bank, stringValue) ==
    LET decoded == decodeURIComponent(stringValue)
        index == findIndex(bank, decoded.str)
    IN  IF decoded.thrown THEN Escaped("getString")
        ELSE IF index # 0
        THEN Response("getString", 200, "success", <<bank[index]>>, NoFilters)
        ELSE Response("getString", 404,
                      "String does not exist in the system", <<>>, NoFilters)

(***************************************************************************)
(* getAllStringsHandler.  A query object is a function from the names of   *)
(* the parameters that are present to their (string) values.               *)
(***************************************************************************)
Has(q, name) == name \in DOMAIN q

byPalindrome(results, isPalindrome) ==
    LET Test(s) == s.properties.is_palindrome = isPalindrome
    IN  SelectSeq(results, Test)

\* byMinLength with > for >=
byMinLengthStrict(results, min) ==
    LET Test(s) == s.properties.length > min
    IN  SelectSeq(results, Test)

byMinLength(results, min) ==
    LET Test(s) == s.properties.length >= min
    IN  SelectSeq(results, Test)

byMaxLength(results, max) ==
    LET Test(s) == s.properties.length <= max
    IN  SelectSeq(results, Test)

byWordCount(results, count) ==
    LET Test(s) == s.properties.word_count = count
    IN  SelectSeq(results, Test)

byContains(results, char) ==
    LET Test(s) == Includes(s.value, char)
    IN  SelectSeq(results, Test)

TrueText == <<"t", "r", "u", "e">>

BadQuery ==
    Response("getAllStrings", 400,
             "Invalid query parameter values or types", <<>>, NoFilters)

getAllStringsHandler(bank, q) ==
    LET isPalindrome == q["is_palindrome"] = TrueText
        r1 == IF Has(q, "is_palindrome")
              THEN byPalindrome(bank, isPalindrome) ELSE bank
        min == parseInt(q["min_length"])
        r2 == IF Has(q, "min_length") THEN byMinLength(r1, min.n) ELSE r1
        max == parseInt(q["max_length"])
        r3 == IF Has(q, "max_length") THEN byMaxLength(r2, max.n) ELSE r2
        count == parseInt(q["word_count"])
        r4 == IF Has(q, "word_count") THEN byWordCount(r3, count.n) ELSE r3
        r5 == IF Has(q, "contains_character")
              THEN byContains(r4, q["contains_character"]) ELSE r4
        filters_applied ==
            [k \in DOMAIN q \cap {"is_palindrome", "min_length", "max_length",
                                  "word_count", "contains_character"} |->
                CASE k = "is_palindrome" -> isPalindrome
                  [] k = "min_length" -> min.n
                  [] k = "max_length" -> max.n
                  [] k = "word_count" -> count.n
                  [] k = "contains_character" -> q[k]]
    IN  IF Has(q, "min_length") /\ min.nan THEN BadQuery
        ELSE IF Has(q, "max_length") /\ max.nan THEN BadQuery
        ELSE IF Has(q, "word_count") /\ count.nan THEN BadQuery
        ELSE Response("getAllStrings", 200, "", r5, filters_applied)

(***************************************************************************)
(* naturalLanguageHandler: keyword and regular-expression heuristics over  *)
(* the raw query text.                                                     *)
(***************************************************************************)
UpperCase == <<"A", "B", "C", "D", "E", "F", "G", "H", "I", "J", "K", "L", "M", "N", "O", "P", "Q", "R", "S", "T", "U", "V", "W", "X", "Y", "Z">>
LowerCase == <<"a", "b", "c", "d", "e", "f", "g", "h", "i", "j", "k", "l", "m", "n", "o", "p", "q", "r", "s", "t", "u", "v", "w", "x", "y", "z">>

ToLower(c) ==
    IF \E i \in 1..Len(UpperCase) : UpperCase[i] = c
    THEN LowerCase[CHOOSE i \in 1..Len(UpperCase) : UpperCase[i] = c]
    ELSE c

\* the class \w
WordChars == CharsOf(UpperCase) \cup CharsOf(LowerCase) \cup Digits \cup {"_"}

Palindromic == <<"p", "a", "l", "i", "n", "d", "r", "o", "m", "i", "c">>
SingleWord == <<"s", "i", "n", "g", "l", "e", " ", "w", "o", "r", "d">>
LongerThan == <<"l", "o", "n", "g", "e", "r", " ", "t", "h", "a", "n", " ">>
ContainingTheLetter == <<"c", "o", "n", "t", "a", "i", "n", "i", "n", "g", " ", "t", "h", "e", " ", "l", "e", "t", "t", "e", "r", " ">>
FirstVowel == <<"f", "i", "r", "s", "t", " ", "v", "o", "w", "e", "l">>

\* the literal lit matches s at index i (ignoring case when ci)
MatchAt(s, i, lit, ci) ==
    /\ i + Len(lit) - 1 <= Len(s)
    /\ \A j \in 1..Len(lit) :
          (IF ci THEN ToLower(s[i + j - 1]) ELSE s[i + j - 1]) = lit[j]

\* index of the leftmost match of /longer than (\d+)/, 0 when none
longerThanMatch(s) ==
    LET Hit(i) == MatchAt(s, i, LongerThan, FALSE)
                  /\ DigitRun(s, i + Len(LongerThan)) > 0
    IN  IF \E i \in 1..Len(s) : Hit(i)
        THEN CHOOSE i \in 1..Len(s) : Hit(i) /\ \A j \in 1..(i - 1) : ~Hit(j)
        ELSE 0

\* index of the leftmost match of /containing the letter (\w)/i, 0 when none
containsMatch(s) ==
    LET Hit(i) == /\ MatchAt(s, i, ContainingTheLetter, TRUE)
                  /\ i + Len(ContainingTheLetter) <= Len(s)
                  /\ s[i + Len(ContainingTheLetter)] \in WordChars
    IN  IF \E i \in 1..Len(s) : Hit(i)
        THEN CHOOSE i \in 1..Len(s) : Hit(i) /\ \A j \in 1..(i - 1) : ~Hit(j)
        ELSE 0

\* /first vowel/i matches
firstVowelMatch(s) == \E i \in 1..Len(s) : MatchAt(s, i, FirstVowel, TRUE)

\* parsedContains keeping the letter recorded first
parsedContainsFirstWins(cm, fv, char) == IF cm # 0 THEN char ELSE <<"a">>

\* parsed_filters.contains_character after lines 261 and 266: the letter of
\* "containing the letter", overwritten with "a" when "first vowel" matched
parsedContains(cm, fv, char) == IF fv THEN <<"a">> ELSE char

naturalLanguageHandler(bank, q) ==
    LET originalQuery == IF Has(q, "query") THEN q["query"] ELSE <<>>
        pal == Includes(originalQuery, Palindromic)
        r1 == IF pal THEN byPalindrome(bank, TRUE) ELSE bank
        single == Includes(originalQuery, SingleWord)
        r2 == IF single THEN byWordCount(r1, 1) ELSE r1
        lt == longerThanMatch(originalQuery)
        min == DecVal(originalQuery, lt + Len(LongerThan),
                      DigitRun(originalQuery, lt + Len(LongerThan))) + 1
        r3 == IF lt # 0 THEN byMinLength(r2, min) ELSE r2
        cm == containsMatch(originalQuery)
        char == <<originalQuery[cm + Len(ContainingTheLetter)]>>
        r4 == IF cm # 0 THEN byContains(r3, char) ELSE r3
        fv == firstVowelMatch(originalQuery)
        r5 == IF fv THEN byContains(r4, <<"a">>) ELSE r4
        keys == (IF pal THEN {"is_palindrome"} ELSE {})
                \cup (IF single THEN {"word_count"} ELSE {})
                \cup (IF lt # 0 THEN {"min_length"} ELSE {})
                \cup (IF cm # 0 \/ fv THEN {"contains_character"} ELSE {})
        parsed_filters ==
            [k \in keys |->
                CASE k = "is_palindrome" -> TRUE
                  [] k = "word_count" -> 1
                  [] k = "min_length" -> min
                  [] k = "contains_character" -> parsedContains(cm, fv, char)]
    IN  IF originalQuery = <<>>
        THEN Response("naturalLanguage", 400, "Missing 'query' parameter",
                      <<>>, NoFilters)
        ELSE Response("naturalLanguage", 200, "", r5, parsed_filters)

(***************************************************************************)
(* convertStream and the dispatcher (the router inside next).  A pathname  *)
(* is a sequence of path tokens, "/" or a piece of text; a path segment is *)
(* the sequence of the pieces between two slashes.                         *)
(***************************************************************************)
\* pathname.split("/")
RECURSIVE split(_)
split(pathname) ==
    IF pathname = <<>> THEN << <<>> >>
    ELSE LET rest == split(Tail(pathname))
         IN  IF Head(pathname) = "/" THEN << <<>> >> \o rest
             ELSE << <<Head(pathname)>> \o Head(rest) >> \o Tail(rest)

\* convertStream: TRUE when the stage answers 400 itself and never calls next
\* (JSON.parse throws).  The body texts are "empty" (no byte), "malformed"
\* ({bad), "null" (null), "number" ({"value":5}), "string" ({"value":"a"}) and
\* "form" (value=a).
convertStream(r) ==
    /\ r.method = "POST"
    /\ r.body \in {"malformed", "form"}
    /\ r.contentType = "application/json"

\* req.body as convertStream leaves it for the handlers: {} unless the text
\* was parsed; "empty" stands for an object without the key value
reqBody(r) ==
    LET none == [kind |-> "empty", value |-> <<>>]
    IN  IF r.method # "POST" \/ r.body = "empty" THEN none
        ELSE IF r.contentType = "application/json"
        THEN CASE r.body = "null" -> [kind |-> "null", value |-> <<>>]
               [] r.body = "number" -> [kind |-> "number", value |-> <<>>]
               [] r.body = "string" -> [kind |-> "string", value |-> <<"a">>]
               [] OTHER -> none
        ELSE IF r.contentType = "application/x-www-form-urlencoded"
        THEN IF r.body = "form"
             THEN [kind |-> "string", value |-> <<"a">>]
             ELSE none
        ELSE none

\* Router with the parametric GET rule tried before the literal one
RouterParamFirst(r) ==
    LET pathname == r.pathname
        urlParts == split(pathname)
    IN  IF pathname = <<"/", "strings">> /\ r.method = "POST"
        THEN [handler |-> "finalHandler", stringParam |-> <<>>]
        ELSE IF pathname = <<"/", "strings">> /\ r.method = "GET"
        THEN [handler |-> "getAllStringsHandler", stringParam |-> <<>>]
        ELSE IF /\ Len(urlParts) = 3
                /\ urlParts[2] = <<"strings">>
                /\ r.method = "GET"
        THEN [handler |-> "getStringHandler", stringParam |-> urlParts[3]]
        ELSE IF pathname = <<"/", "strings", "/", "filter-by-natural-language">>
                /\ r.method = "GET"
        THEN [handler |-> "naturalLanguageHandler", stringParam |-> <<>>]
        ELSE IF /\ Len(urlParts) = 3
                /\ urlParts[2] = <<"strings">>
                /\ r.method = "DELETE"
        THEN [handler |-> "deleteStringHandler", stringParam |-> urlParts[3]]
        ELSE [handler |-> "notFound", stringParam |-> <<>>]

\* the if/else-if chain of next, after the middleware stack is exhausted
Router(r) ==
    LET pathname == r.pathname
        urlParts == split(pathname)
    IN  IF pathname = <<"/", "strings">> /\ r.method = "POST"
        THEN [handler |-> "finalHandler", stringParam |-> <<>>]
        ELSE IF pathname = <<"/", "strings">> /\ r.method = "GET"
        THEN [handler |-> "getAllStringsHandler", stringParam |-> <<>>]
        ELSE IF pathname = <<"/", "strings", "/", "filter-by-natural-language">>
                /\ r.method = "GET"
        THEN [handler |-> "naturalLanguageHandler", stringParam |-> <<>>]
        ELSE IF /\ Len(urlParts) = 3
                /\ urlParts[2] = <<"strings">>
                /\ r.method = "GET"
        THEN [handler |-> "getStringHandler", stringParam |-> urlParts[3]]
        ELSE IF /\ Len(urlParts) = 3
                /\ urlParts[2] = <<"strings">>
                /\ r.method = "DELETE"
        THEN [handler |-> "deleteStringHandler", stringParam |-> urlParts[3]]
        ELSE [handler |-> "notFound", stringParam |-> <<>>]

(***************************************************************************)
(* The service.  req[r] is the r-th create or delete request: pc is where  *)
(* its handler stands ("new": not yet received; "hashing": suspended at    *)
(* await hashString; "writing": suspended at await fs.writeFile; "done"),  *)
(* snap the text handed to fs.writeFile, rec the record it pushed or       *)
(* spliced.  file is the content of strings.json: ok is FALSE when it      *)
(* holds no complete serialisation (a truncated or interleaved write).     *)
(* The three read handlers are synchronous and change nothing: the answer  *)
(* of a read served in a state is the handler's operator applied to the    *)
(* stringsBank of that state.                                              *)
(* intact and deleted204 are history variables: the requests whose         *)
(* in-memory mutation no later opposite mutation of the same value has     *)
(* undone, and the values whose delete was answered 204 with no create     *)
(* request for them received since.                                        *)
(***************************************************************************)
Reqs == 1..MaxReqs

StoreValues == {<<"a">>, <<"a", " ", "b">>}

PathParams == {<<"a">>, <<"%61">>, <<"a", "%20", "b">>, <<"a", "%">>}

Bodies ==
    {[kind |-> k, value |-> <<>>] : k \in {"null", "empty", "number"}}
    \cup {[kind |-> "string", value |-> v] : v \in StoreValues}

NoQuery == [k \in {} |-> <<>>]

NewRequest ==
    [op |-> "none", body |-> [kind |-> "empty", value |-> <<>>], pc |-> "new",
     code |-> 0, message |-> "", failed |-> FALSE, rec |-> <<>>,
     snap |-> <<>>, overlapped |-> FALSE, wrote |-> "none",
     after201 |-> FALSE]

Partial == [ok |-> FALSE, text |-> <<>>]

NoHttpReq ==
    [method |-> "", pathname |-> <<>>, contentType |-> "", body |-> "",
     handler |-> "", stringParam |-> <<>>]

Init ==
    /\ stringsBank = <<>>
    /\ file = [ok |-> TRUE, text |-> JSONstringify(<<>>)]
    /\ req = [r \in Reqs |-> NewRequest]
    /\ resp = NoResponse
    /\ intact = {}
    /\ deleted204 = {}
    /\ httpReq = NoHttpReq
    /\ query = NoQuery

\* requests are received in the order of their numbers
Fresh(r) ==
    /\ req[r].pc = "new"
    /\ IF r = 1 THEN TRUE ELSE req[r - 1].pc # "new"

\* fs.writeFile(stringsFilePath, text) is called by request r
StartWrite(r, op, body, rec, text) ==
    LET busy == \E o \in Reqs : o # r /\ req[o].pc = "writing"
    IN  [o \in Reqs |->
            IF o = r
            THEN [req[r] EXCEPT !.op = op, !.body = body, !.pc = "writing",
                                !.rec = <<rec>>, !.snap = text,
                                !.overlapped = busy]
            ELSE IF req[o].pc = "writing"
            THEN [req[o] EXCEPT !.overlapped = TRUE]
            ELSE req[o]]

\* a create of value was answered 201 and no delete has removed value since
Accepted(value) ==
    \E o \in intact :
        req[o].op = "create" /\ req[o].code = 201 /\ req[o].body.value = value

\* finalHandler up to its await on hashString (lines 72-120), for the
\* request in slot r
finalHandlerSteps(r, body) ==
    /\ Fresh(r)
    /\ LET q == [req[r] EXCEPT !.op = "create", !.body = body,
                               !.after201 = (body.kind = "string"
                                             /\ Accepted(body.value))]
           done(code, message) ==
               [q EXCEPT !.pc = "done", !.code = code, !.message = message,
                         !.failed = (code = 500)]
       IN  req' = [req EXCEPT ![r] =
             CASE body.kind = "null" -> done(500, "Internal server error")
               [] body.kind = "empty" ->
                     done(400, "Invalid request body or missing 'value' field")
               [] body.kind = "number" ->
                     done(422, "Invalid data type for 'value' (must be string)")
               [] body.kind = "string" /\ Exists(stringsBank, body.value) ->
                     done(409, "String already exists in the system")
               [] OTHER -> [q EXCEPT !.pc = "hashing"]]
    /\ deleted204' = IF body.kind = "string"
                     THEN deleted204 \ {body.value} ELSE deleted204
    /\ UNCHANGED <<stringsBank, file, intact>>

\* POST /strings
finalHandler(r, body) ==
    /\ finalHandlerSteps(r, body)
    /\ UNCHANGED <<resp, httpReq, query>>

\* finalHandler from the resumption after hashString to its await on
\* fs.writeFile (lines 120-140)
hashResolved(r) ==
    /\ req[r].pc = "hashing"
    /\ LET rec == responseObject(req[r].body.value, r)
           bank == push(stringsBank, rec)
       IN  /\ stringsBank' = bank
           /\ req' = StartWrite(r, "create", req[r].body, rec,
                                JSONstringify(bank))
    /\ intact' = {o \in intact :
                    ~(req[o].op = "delete"
                      /\ req[o].body.value = req[r].body.value)} \cup {r}
    /\ UNCHANGED <<file, resp, deleted204, httpReq, query>>

\* deleteStringHandler up to its await on fs.writeFile (lines 283-300)
deleteStringHandlerSteps(r, stringValue) ==
    /\ Fresh(r)
    /\ LET decoded == decodeURIComponent(stringValue)
           index == findIndex(stringsBank, decoded.str)
           body == [kind |-> "string", value |-> decoded.str]
           q == [req[r] EXCEPT !.op = "delete", !.body = body]
           bank == splice(stringsBank, index)
       IN  IF decoded.thrown
           THEN /\ req' = [req EXCEPT ![r] =
                      [q EXCEPT !.pc = "done", !.code = 500, !.failed = TRUE,
                                !.message = "Internal server error"]]
                /\ UNCHANGED <<stringsBank, intact>>
           ELSE IF index = 0
           THEN /\ req' = [req EXCEPT ![r] =
                      [q EXCEPT !.pc = "done", !.code = 404, !.message =
                                  "String does not exist in the system"]]
                /\ UNCHANGED <<stringsBank, intact>>
           ELSE /\ stringsBank' = bank
                /\ req' = StartWrite(r, "delete", body, stringsBank[index],
                                     JSONstringify(bank))
                /\ intact' = {o \in intact :
                                ~(req[o].op = "create"
                                  /\ req[o].body.value = decoded.str)} \cup {r}
    /\ UNCHANGED <<file, deleted204>>

\* DELETE /strings/{value}
deleteStringHandler(r, stringValue) ==
    /\ deleteStringHandlerSteps(r, stringValue)
    /\ UNCHANGED <<resp, httpReq, query>>

\* what strings.json may hold once the write of request r has completed: its
\* text, or no complete serialisation when another fs.writeFile of the same
\* file was in progress during it
Written(r) ==
    {[ok |-> TRUE, text |-> req[r].snap]}
    \cup (IF req[r].overlapped THEN {Partial} ELSE {})

\* the await on fs.writeFile resolves: 201 or 204 (lines 140-143, 300-303)
writeFileResolved(r) ==
    /\ req[r].pc = "writing"
    /\ file' \in Written(r)
    /\ req' = [req EXCEPT ![r] =
          [req[r] EXCEPT !.pc = "done", !.wrote = "ok", !.rec = <<>>,
                         !.snap = <<>>, !.overlapped = FALSE,
                         !.code = IF req[r].op = "create" THEN 201 ELSE 204,
                         !.message = IF req[r].op = "create" THEN "success"
                                     ELSE ""]]
    /\ deleted204' = IF req[r].op = "delete"
                     THEN deleted204 \cup {req[r].body.value} ELSE deleted204
    /\ UNCHANGED <<stringsBank, resp, intact, httpReq, query>>

\* the await on fs.writeFile rejects; the catch block answers 500 (lines
\* 144-150, 304-310).  The open may have failed (the file is untouched) or a
\* later write (the file was truncated by the open with flag "w").
writeFileRejected(r) ==
    /\ req[r].pc = "writing"
    /\ file' \in {file, Partial}
    /\ req' = [req EXCEPT ![r] =
          [req[r] EXCEPT !.pc = "done", !.wrote = "failed", !.code = 500,
                         !.rec = <<>>, !.snap = <<>>, !.overlapped = FALSE,
                         !.failed = TRUE,
                         !.message = "Internal server error"]]
    /\ UNCHANGED <<stringsBank, resp, intact, deleted204, httpReq, query>>

Next ==
    \/ \E r \in Reqs, body \in Bodies : finalHandler(r, body)
    \/ \E r \in Reqs : hashResolved(r)
    \/ \E r \in Reqs, p \in PathParams : deleteStringHandler(r, p)
    \/ \E r \in Reqs : writeFileResolved(r)
    \/ \E r \in Reqs : writeFileRejected(r)

Spec == Init /\ [][Next]_vars

(***************************************************************************)
(* Properties of the service.                                              *)
(***************************************************************************)
Decodes(p, value) ==
    ~decodeURIComponent(p).thrown /\ decodeURIComponent(p).str = value

InternalError(x) == x.code = 500 /\ x.message = "Internal server error"

\* C1: in every reachable state the in-memory collection holds no two
\* records with the same value.
C1_NoDuplicateValues ==
    \A i, j \in 1..Len(stringsBank) :
        i # j => stringsBank[i].value # stringsBank[j].value

\* C2: whenever no create or delete is in progress and every storage write
\* that was started completed successfully, strings.json holds the
\* serialisation of the in-memory collection.
C2_FileMirrorsMemory ==
    (/\ \A r \in Reqs : req[r].pc \in {"new", "done"}
     /\ \A r \in Reqs : req[r].wrote # "failed")
    => file = [ok |-> TRUE, text |-> JSONstringify(stringsBank)]

\* C3: a request one of whose steps failed is answered, by its own handler,
\* with 500 "Internal server error"; no request handed to a synchronous
\* handler is left unanswered.
C3_FailureAnswered500 ==
    /\ \A r \in Reqs : req[r].failed => InternalError(req[r])
    /\ resp.failed => InternalError(resp)
    /\ httpReq.handler \in {"convertStream", "getAllStringsHandler",
                            "naturalLanguageHandler", "getStringHandler",
                            "notFound"} => resp.code # 0

\* C4: the step at which the storage write of request r fails answers 500,
\* leaves the collection as the mutation left it and the file as it was; a
\* get-one that follows finds the value of a failed create (and a create of
\* it is a duplicate) and does not find the value of a failed delete.
C4_FailedWriteKeepsMutation ==
    [][\A r \in Reqs :
        (req[r].pc = "writing" /\ req'[r].wrote = "failed") =>
            /\ InternalError(req'[r])
            /\ stringsBank' = stringsBank
            /\ file' = file
            /\ (r \in intact /\ req[r].op = "create") =>
                  /\ Exists(stringsBank', req[r].body.value)
                  /\ \A p \in PathParams : Decodes(p, req[r].body.value) =>
                        getStringHandler(stringsBank', p).code = 200
            /\ (r \in intact /\ req[r].op = "delete") =>
                  \A p \in PathParams : Decodes(p, req[r].body.value) =>
                        getStringHandler(stringsBank', p).code = 404]_vars

\* C5: once a delete of v has been answered 204 and no create request for v
\* has been received since, a get-one for v returns 404.
C5_DeletedStaysGone ==
    \A v \in deleted204 : \A p \in PathParams :
        Decodes(p, v) => getStringHandler(stringsBank, p).code = 404

\* C6: a create of a value whose earlier create was answered 201, with no
\* delete of the value in between, is answered 409 at once and changes
\* neither the collection nor the file, and starts no storage write.
C6_SecondCreateRejected ==
    [][\A r \in Reqs :
        (/\ req[r].pc = "new"
         /\ req'[r].pc # "new"
         /\ req'[r].op = "create"
         /\ req'[r].body.kind = "string"
         /\ Accepted(req'[r].body.value)) =>
            /\ req'[r].pc = "done"
            /\ req'[r].code = 409
            /\ stringsBank' = stringsBank
            /\ file' = file
            /\ \A o \in Reqs : req'[o].pc = "writing" <=> req[o].pc = "writing"
      ]_vars

\* a second create, received after the first was answered 201, was rejected
C6_Witness ==
    \E r \in Reqs :
        req[r].after201 /\ req[r].code = 409 /\ req[r].wrote = "none"

\* C7: while a create or delete is suspended between its in-memory mutation
\* and the completion of its storage write, every read observes the mutated
\* collection: the record being created is returned by get-one, list/filter
\* and the natural-language filter, the record being deleted by none.
C7_ReadsSeeMutation ==
    \A r \in Reqs : req[r].pc = "writing" =>
        LET rec == req[r].rec[1]
            all == getAllStringsHandler(stringsBank, NoQuery)
            one == naturalLanguageHandler(stringsBank,
                                          [k \in {"query"} |-> SingleWord])
            In(s) == \E i \in 1..Len(s) : s[i] = rec
        IN  /\ (req[r].op = "create" /\ r \in intact) =>
                /\ \A p \in PathParams : Decodes(p, rec.value) =>
                      /\ getStringHandler(stringsBank, p).code = 200
                      /\ getStringHandler(stringsBank, p).data[1].value
                            = rec.value
                /\ all.code = 200 /\ In(all.data)
                /\ rec.properties.word_count = 1 => In(one.data)
            /\ req[r].op = "delete" =>
                /\ \A p \in PathParams :
                      getStringHandler(stringsBank, p).data # <<rec>>
                /\ ~In(all.data)
                /\ ~In(one.data)

\* a create and a delete are both suspended at their writes: a get-one
\* returns the record of the create, and the list lacks that of the delete
C7_Witness ==
    \E r, o \in Reqs :
        /\ req[r].pc = "writing" /\ req[r].op = "create" /\ r \in intact
        /\ req[o].pc = "writing" /\ req[o].op = "delete"
        /\ \E p \in PathParams :
              getStringHandler(stringsBank, p).data = req[r].rec
        /\ \A i \in 1..Len(stringsBank) : stringsBank[i] # req[o].rec[1]

(***************************************************************************)
(* One request through the whole server: convertStream, the router and the *)
(* handler the router calls, on an empty collection or on one that holds   *)
(* "a".  The request takes slot 1.  httpReq.handler names what the         *)
(* dispatcher called; resp is the answer of convertStream, of the fallback *)
(* or of a synchronous handler, req[1] holds that of create and delete.    *)
(***************************************************************************)
PathTokens == {"/", "strings", "filter-by-natural-language", "a", "%"}

\* the pathnames of url.parse: they start with a slash
Pathnames ==
    UNION {{<<"/">> \o s : s \in [1..n -> PathTokens]} : n \in 0..(MaxPathLen - 1)}

HttpReqs ==
    {[method |-> m, pathname |-> p, contentType |-> "", body |-> "empty",
      handler |-> "", stringParam |-> <<>>] :
        m \in {"GET", "DELETE", "PUT"}, p \in Pathnames}
    \cup {[method |-> "POST", pathname |-> p, contentType |-> c, body |-> b,
           handler |-> "", stringParam |-> <<>>] :
        p \in Pathnames,
        c \in {"application/json", "application/x-www-form-urlencoded",
               "text/plain"},
        b \in {"empty", "malformed", "null", "number", "string", "form"}}

RouteBanks == {<<>>, <<responseObject(<<"a">>, 0)>>}

RouteQueries == {NoQuery, [k \in {"query"} |-> SingleWord]}

InitRoute ==
    /\ stringsBank \in RouteBanks
    /\ file = [ok |-> TRUE, text |-> JSONstringify(stringsBank)]
    /\ req = [r \in Reqs |-> NewRequest]
    /\ resp = NoResponse
    /\ intact = {}
    /\ deleted204 = {}
    /\ httpReq \in HttpReqs
    /\ query \in IF httpReq.method = "GET" THEN RouteQueries ELSE {NoQuery}

\* http.createServer's callback: next() runs convertStream, then the router,
\* which calls the handler of the first rule that matches
next ==
    /\ httpReq.handler = ""
    /\ IF convertStream(httpReq)
       THEN /\ httpReq' = [httpReq EXCEPT !.handler = "convertStream"]
            /\ resp' = Response("convertStream", 400, "Invalid JSON format",
                                <<>>, NoFilters)
            /\ UNCHANGED <<stringsBank, file, req, intact, deleted204>>
       ELSE LET route == Router(httpReq)
                h == route.handler
            IN  /\ httpReq' = [httpReq EXCEPT
                                  !.handler = h,
                                  !.stringParam = route.stringParam]
                /\ IF h = "finalHandler"
                   THEN /\ finalHandlerSteps(1, reqBody(httpReq))
                        /\ UNCHANGED resp
                   ELSE IF h = "deleteStringHandler"
                   THEN /\ deleteStringHandlerSteps(1, route.stringParam)
                        /\ UNCHANGED resp
                   ELSE /\ resp' =
                             CASE h = "getAllStringsHandler" ->
                                    getAllStringsHandler(stringsBank, query)
                               [] h = "naturalLanguageHandler" ->
                                    naturalLanguageHandler(stringsBank, query)
                               [] h = "getStringHandler" ->
                                    getStringHandler(stringsBank,
                                                     route.stringParam)
                               [] OTHER ->
                                    Response("notFound", 404,
                                             "Route not found", <<>>,
                                             NoFilters)
                        /\ UNCHANGED <<stringsBank, file, req, intact,
                                       deleted204>>
    /\ UNCHANGED query

NextRoute ==
    \/ next
    \/ hashResolved(1)
    \/ writeFileResolved(1)
    \/ writeFileRejected(1)

SpecRoute == InitRoute /\ [][NextRoute]_vars

\* the pathname is /strings/ followed by exactly one segment: the segment
OneSegment(p) ==
    /\ Len(p) >= 3
    /\ p[1] = "/" /\ p[2] = "strings" /\ p[3] = "/"
    /\ \A i \in 4..Len(p) : p[i] # "/"

FilterPath == <<"/", "strings", "/", "filter-by-natural-language">>

\* C8: a request the middleware passed on reaches exactly the handler of
\* the first rule that matches it: POST /strings create, GET /strings
\* list/filter, GET /strings/filter-by-natural-language the natural-language
\* filter, GET or DELETE /strings/{one segment} get-one or delete with that
\* segment, and anything else 404 "Route not found" and no handler; the
\* handler named is the one that ran.
C8_FirstMatchWins ==
    (httpReq.handler \notin {"", "convertStream"}) =>
        LET m == httpReq.method
            p == httpReq.pathname
            h == httpReq.handler
        IN  /\ h = "finalHandler" <=> (m = "POST" /\ p = <<"/", "strings">>)
            /\ h = "getAllStringsHandler"
                  <=> (m = "GET" /\ p = <<"/", "strings">>)
            /\ h = "naturalLanguageHandler" <=> (m = "GET" /\ p = FilterPath)
            /\ h = "getStringHandler"
                  <=> (m = "GET" /\ OneSegment(p) /\ p # FilterPath)
            /\ h = "deleteStringHandler" <=> (m = "DELETE" /\ OneSegment(p))
            /\ h \in {"getStringHandler", "deleteStringHandler"}
                  => httpReq.stringParam = SubSeq(p, 4, Len(p))
            /\ h \in {"finalHandler", "getAllStringsHandler",
                      "naturalLanguageHandler", "getStringHandler",
                      "deleteStringHandler", "notFound"}
            /\ h = "notFound" <=> (resp.code = 404
                                    /\ resp.message = "Route not found")
            /\ req[1].op = CASE h = "finalHandler" -> "create"
                              [] h = "deleteStringHandler" -> "delete"
                              [] OTHER -> "none"
            /\ resp.handler = CASE h = "getAllStringsHandler" -> "getAllStrings"
                                [] h = "naturalLanguageHandler" ->
                                      "naturalLanguage"
                                [] h = "getStringHandler" -> "getString"
                                [] h = "notFound" -> "notFound"
                                [] OTHER -> "none"

\* GET /strings/filter-by-natural-language went to the natural-language
\* filter, which answered
C8_Witness ==
    /\ httpReq.method = "GET"
    /\ httpReq.pathname = FilterPath
    /\ httpReq.handler = "naturalLanguageHandler"
    /\ resp.handler = "naturalLanguage"
    /\ resp.code = 200

(***************************************************************************)
(* The list/filter handler alone, over every small collection and query.   *)
(***************************************************************************)
ListValues == {<<"a">>, <<"b", "b">>, <<"a", " ", "b">>}

\* collections of at most n records; record i was created at instant i
Banks(n) ==
    UNION {{[i \in 1..k |-> responseObject(s[i], i)] : s \in [1..k -> ListValues]}
             : k \in 0..n}

ParamTexts(k) ==
    CASE k = "is_palindrome" -> {TrueText, <<"f", "a", "l", "s", "e">>}
      [] k = "min_length" -> {<<"2">>, <<"x">>}
      [] k = "max_length" -> {<<"2", "x">>, <<>>}
      [] k = "word_count" -> {<<"1">>, <<"x", "1">>}
      [] k = "contains_character" -> {<<"b">>}

ParamNames ==
    {"is_palindrome", "min_length", "max_length", "word_count",
     "contains_character"}

ListQueries ==
    UNION {{q \in [S -> UNION {ParamTexts(k) : k \in S}] :
                \A k \in S : q[k] \in ParamTexts(k)} : S \in SUBSET ParamNames}

InitList ==
    /\ stringsBank \in Banks(MaxBankLen)
    /\ file = [ok |-> TRUE, text |-> JSONstringify(stringsBank)]
    /\ req = [r \in Reqs |-> NewRequest]
    /\ resp = NoResponse
    /\ intact = {}
    /\ deleted204 = {}
    /\ httpReq = NoHttpReq
    /\ query \in ListQueries

\* GET /strings with the query object query
listStrings ==
    /\ resp = NoResponse
    /\ resp' = getAllStringsHandler(stringsBank, query)
    /\ UNCHANGED <<stringsBank, file, req, intact, deleted204, httpReq, query>>

SpecList == InitList /\ [][listStrings]_vars

IntParams == {"min_length", "max_length", "word_count"}

\* record s passes every filter whose parameter is present in q
Passes(s, q) ==
    /\ Has(q, "is_palindrome") =>
          (s.properties.is_palindrome <=> q["is_palindrome"] = TrueText)
    /\ Has(q, "min_length") =>
          s.properties.length >= parseInt(q["min_length"]).n
    /\ Has(q, "max_length") =>
          s.properties.length <= parseInt(q["max_length"]).n
    /\ Has(q, "word_count") =>
          s.properties.word_count = parseInt(q["word_count"]).n
    /\ Has(q, "contains_character") =>
          Includes(s.value, q["contains_character"])

\* C9: list/filter answers 400 with no records when a present integer
\* parameter does not parse, whatever the other parameters; otherwise 200
\* with exactly the records, in insertion order, that pass every present
\* filter, their count, and filters_applied holding exactly the present
\* parameters; the collection is never changed.
C9_FilterExact ==
    /\ [](resp.handler = "getAllStrings" =>
            LET Keep(s) == Passes(s, query)
            IN  IF \E k \in IntParams : Has(query, k) /\ parseInt(query[k]).nan
                THEN resp.code = 400 /\ resp.data = <<>>
                ELSE /\ resp.code = 200
                     /\ resp.data = SelectSeq(stringsBank, Keep)
                     /\ resp.count = Len(resp.data)
                     /\ DOMAIN resp.filters = DOMAIN query)
    /\ [][stringsBank' = stringsBank]_vars

\* two filters applied that kept some records and dropped others
C9_Witness ==
    /\ resp.handler = "getAllStrings"
    /\ resp.code = 200
    /\ Cardinality(DOMAIN query) >= 2
    /\ Len(resp.data) >= 1
    /\ Len(resp.data) < Len(stringsBank)

(***************************************************************************)
(* The natural-language filter alone, over every small collection and      *)
(* every query made of at most MaxPhrases phrases.                         *)
(***************************************************************************)
Phrases ==
    {Palindromic, SingleWord, LongerThan, <<"1">>,
     <<"C">> \o Tail(ContainingTheLetter), <<"b">>, FirstVowel}

Texts ==
    UNION {{Concat(s) : s \in [1..n -> Phrases]} : n \in 0..MaxPhrases}

InitNL ==
    /\ stringsBank \in Banks(MaxBankLen)
    /\ file = [ok |-> TRUE, text |-> JSONstringify(stringsBank)]
    /\ req = [r \in Reqs |-> NewRequest]
    /\ resp = NoResponse
    /\ intact = {}
    /\ deleted204 = {}
    /\ httpReq = NoHttpReq
    /\ query \in {NoQuery} \cup {[k \in {"query"} |-> x] : x \in Texts}

\* GET /strings/filter-by-natural-language with the query object query
filterByNaturalLanguage ==
    /\ resp = NoResponse
    /\ resp' = naturalLanguageHandler(stringsBank, query)
    /\ UNCHANGED <<stringsBank, file, req, intact, deleted204, httpReq, query>>

SpecNL == InitNL /\ [][filterByNaturalLanguage]_vars

\* C10: the natural-language filter returns exactly the records that
\* satisfy every rule the query matched; when both "containing the letter
\* X" and "first vowel" match, these are the records containing both X and
\* "a", and parsed_filters.contains_character is "a" alone.
C10_RulesCumulative ==
    (resp.handler = "naturalLanguage" /\ resp.code = 200) =>
        LET text == query["query"]
            lt == longerThanMatch(text)
            n == DecVal(text, lt + Len(LongerThan),
                        DigitRun(text, lt + Len(LongerThan)))
            cm == containsMatch(text)
            X == <<text[cm + Len(ContainingTheLetter)]>>
            fv == firstVowelMatch(text)
            Keep(s) ==
                /\ Includes(text, Palindromic) => s.properties.is_palindrome
                /\ Includes(text, SingleWord) => s.properties.word_count = 1
                /\ lt # 0 => s.properties.length > n
                /\ cm # 0 => Includes(s.value, X)
                /\ fv => Includes(s.value, <<"a">>)
        IN  /\ resp.data = SelectSeq(stringsBank, Keep)
            /\ resp.count = Len(resp.data)
            /\ (cm # 0 /\ fv) =>
                  /\ \A i \in 1..Len(resp.data) :
                        /\ Includes(resp.data[i].value, X)
                        /\ Includes(resp.data[i].value, <<"a">>)
                  /\ resp.filters["contains_character"] = <<"a">>

\* a query matching both rules, with a letter other than "a", that kept a
\* record and dropped a record holding only one of the two letters
C10_Witness ==
    /\ resp.handler = "naturalLanguage"
    /\ resp.code = 200
    /\ containsMatch(query["query"]) # 0
    /\ firstVowelMatch(query["query"])
    /\ query["query"][containsMatch(query["query"])
                      + Len(ContainingTheLetter)] = "b"
    /\ Len(resp.data) >= 1
    /\ Len(resp.data) < Len(stringsBank)

====
